---- MODULE Spec2Model ----
(***************************************************************************)
(* A state-machine model of the notebook 2-beta-vae.ipynb: the data cell   *)
(* (train/test split), the training cell (epoch/batch loop, checkpoint),   *)
(* the optional load cell, the visualization cells, and the pure           *)
(* functions of the network (layer shapes, the reparameterization          *)
(* sampler).                                                               *)
(*                                                                         *)
(* Tensors are abstracted to small integers: a batch is the set of the     *)
(* dataset indices it holds, the parameters are one residue modulo         *)
(* ParamMod, a loss is a natural number that grows with the batch size     *)
(* (reduction='sum') and depends on the parameters.  Devices, file names,  *)
(* loop counters and control flow are modelled exactly.                    *)
(***************************************************************************)
EXTENDS Integers, Sequences, FiniteSets, TLC

\* ------------------------------------------------------------------ bounds
MaxPaths == 20        \* glob.glob returns 0..MaxPaths paths
MaxEpochs == 2        \* epochs ranges over 1..MaxEpochs
ParamMod == 3         \* the parameters are a residue modulo ParamMod
MaxSplitPaths == 4    \* SpecSplit: path lists of every order up to this length
MaxSplitTest == 5     \* SpecSplit: test_size ranges over 0..MaxSplitTest
MaxB == 4             \* SpecShape: batch sizes 1..MaxB
MaxLatent == 3        \* SpecShape: latent sizes 1..MaxLatent
MaxDim == 2           \* SpecSample: mu/logvar vectors of length 1..MaxDim
One == 4              \* SpecSample: fixed-point denominator, the real 1.0

TestSizes == {0, 1, 3}     \* values of test_size tried in Spec
BatchSizes == {1, 2, 4}    \* values of batch_size tried in Spec

\* ------------------------------------------------------- program constants
Beta == 3             \* vae_loss(..., beta=3)
ImageSide == 64       \* transforms.Resize(64)
ImageChannels == 3    \* Conv2d(in_channels=3)
FlatFeatures == 7 * 7 * 64  \* nn.Linear(7*7*64, latent_size)
LatentSize == 16      \* latent_size = 16
GridRows == 10        \* rows = cols = 10 of the latent-grid cell
ProgressMarks == 10   \* len(train_loader) // 10
SaveName == "beta-vae.pth"  \* torch.save(vae.state_dict(), 'beta-vae.pth')
LoadName == "vae.pth"       \* torch.load('vae.pth', map_location=device)

\* What a file name holds: nothing, a state dict of this VAE (its parameter
\* values), or something load_state_dict rejects.
NoFile == [kind |-> "absent", data |-> 0]
BadFile == [kind |-> "other", data |-> 0]
StateDict(p) == [kind |-> "state_dict", data |-> p]

VARIABLES
  device,        \* torch.device chosen at import time
  paths,         \* the list glob.glob returned
  test_size, batch_size, epochs,   \* hyperparameters
  train_data, test_data,           \* the two Dataset objects (their paths)
  pc,            \* position of the notebook's control
  epoch, batch,  \* loop variables of the training cell
  order, pos,    \* the current train_loader iterator: its index order, how
                 \* many indices it has yielded
  x, xdev,       \* the current batch (a set of indices) and its device
  zdev,          \* the device of the latent vector z of the traversal cell
  params, grad,  \* model parameters and their .grad
  out, loss, running_loss,
  logged,        \* the epoch log lines printed so far: <<epoch, sum, count>>
  marks,         \* number of '=' progress marks printed
  fs,            \* the files: name -> content
  err,           \* per cell, the exception it raised, or "none"
  nsaves, nsteps,\* history: torch.save calls, optimizer.step calls
  nbatches,      \* history: batches the training loop has fetched
  done,          \* history: the loop-body statements run on the current batch
  prevDone,      \* history: the value of done when the current batch was fetched
  yielded,       \* history: how often each index was yielded this epoch
  epochLoss,     \* history: sum of the losses computed in this epoch
  inShape, shape, latent, stage, muShape, logvarShape,   \* one forward pass,
                 \* by tensor shape: the input, the running tensor, latent_size,
                 \* the next layer, and the shapes of mu and logvar
  smu, slogvar, sstd, seps, sz, spc    \* one call of sample(mu, logvar)

cfgVars == <<device, paths, test_size, batch_size, epochs>>
dataVars == <<train_data, test_data>>
loopVars == <<epoch, batch, order, pos, x, xdev, zdev>>
modelVars == <<params, grad, out, loss, running_loss>>
ioVars == <<logged, marks, fs, err>>
histVars == <<nsaves, nsteps, nbatches, done, prevDone, yielded, epochLoss>>
shapeVars == <<inShape, shape, latent, stage, muShape, logvarShape>>
sampleVars == <<smu, slogvar, sstd, seps, sz, spc>>
vars == <<cfgVars, dataVars, pc, loopVars, modelVars, ioVars, histVars,
          shapeVars, sampleVars>>

\* ----------------------------------------------------------------- helpers
Min(a, b) == IF a < b THEN a ELSE b
Max(a, b) == IF a > b THEN a ELSE b

RECURSIVE SumOver(_, _)
SumOver(f, S) ==
  IF S = {} THEN 0
  ELSE LET e == CHOOSE e \in S : TRUE IN f[e] + SumOver(f, S \ {e})

Perms(n) ==
  {p \in [1..n -> 1..n] : \A i, j \in 1..n : p[i] = p[j] => i = j}

Range(s) == {s[i] : i \in DOMAIN s}

\* ------------------------------------------------------------ the data cell
\* Python's normalisation of a slice bound against a list of length n:
\* a negative bound counts from the end, and every bound is clamped to 0..n.
SliceBound(i, n) == IF i < 0 THEN Max(i + n, 0) ELSE Min(i, n)

\* s[lo:hi] for integer bounds (0-based, hi exclusive).
PySlice(s, lo, hi) ==
  LET a == SliceBound(lo, Len(s))
      b == SliceBound(hi, Len(s))
  IN  IF a >= b THEN <<>> ELSE SubSeq(s, a + 1, b)

\* paths[:-test_size]
TrainSplit(p, ts) == PySlice(p, 0, 0 - ts)

\* paths[-test_size:]
TestSplit(p, ts) == PySlice(p, 0 - ts, Len(p))

\* len(train_loader): DataLoader without drop_last yields ceil(n / batch_size)
LoaderLen(n, bs) == (n + bs - 1) \div bs

\* DataLoader(train_data, shuffle=True): the index orders an iterator may use.
\* RandomSampler draws any permutation; the model follows three of them (the
\* identity, the reversal, the rotation by one).
Shuffles(n) ==
  { [i \in 1..n |-> i], [i \in 1..n |-> n + 1 - i], [i \in 1..n |-> (i % n) + 1] }

\* Dataset.__getitem__: the image of a path, abstracted to one bit.
GetItem(ds, i) == ds[i] % 2

\* -------------------------------------------------------- the network maths
\* exp() on arguments in units of ln 2.
Exp(k) == 2 ^ k

\* VAE.forward: encoder, sample, decoder, on a batch xs of train_data indices,
\* at one value of the sampler's noise (the noise itself is followed in
\* SpecSample).
Forward(p, ds, xs) ==
  [ mu      |-> p,
    logvar  |-> 0,
    x_recon |-> [i \in xs |-> (p + GetItem(ds, i)) % 2] ]

NoOut == [mu |-> 0, logvar |-> 0, x_recon |-> <<>>]

\* F.binary_cross_entropy(x_recon, x, reduction='sum')
BCE(x_recon, ds) ==
  SumOver([i \in DOMAIN x_recon |-> 1 + ((x_recon[i] + GetItem(ds, i)) % 2)],
          DOMAIN x_recon)

\* -1/2 * torch.sum(1 + logvar - mu.pow(2) - logvar.exp()), summed over the batch
KLD(mu, logvar, n) == (n * (mu * mu + Exp(logvar) - 1 - logvar)) \div 2

\* vae_loss(x_recon, x, mu, logvar, beta=3)
vae_loss(o, ds) ==
  BCE(o.x_recon, ds) + Beta * KLD(o.mu, o.logvar, Cardinality(DOMAIN o.x_recon))

\* loss.backward(): the gradient contribution of one loss, added to .grad
Backward(g, l) == g + 1 + (l % 2)

\* optimizer.step(): the parameters after one step on gradient g
OptimizerStep(p, g) == (p + g) % ParamMod

\* A model call with an input on device xd while the parameters are on device d
\* raises unless the two are the same device.
SameDevice(xd, d) == xd = d

\* ------------------------------------------------------------------- cells
Cells == {"train", "load", "trav", "recon", "grid"}
Devices == {"cpu", "cuda"}

NoShape == <<>>

ShapeIdle ==
  /\ inShape = NoShape /\ shape = NoShape /\ latent = 0 /\ stage = "off"
  /\ muShape = NoShape /\ logvarShape = NoShape

SampleIdle ==
  /\ smu = <<>> /\ slogvar = <<>> /\ sstd = <<>> /\ seps = <<>> /\ sz = <<>>
  /\ spc = "off"

\* The notebook's state before the data cell runs.
Hyper ==
  /\ device \in Devices
  /\ batch_size \in BatchSizes
  /\ epochs \in 1..MaxEpochs

\* The hyperparameters held at one value, where they play no part.
HyperFixed ==
  /\ device = "cpu"
  /\ batch_size = 4
  /\ epochs = 1

NotebookInit ==
  /\ train_data = <<>> /\ test_data = <<>>
  /\ pc = "data"
  /\ epoch = 0 /\ batch = 0 /\ order = <<>> /\ pos = 0
  /\ x = {} /\ xdev = "cpu" /\ zdev = "cpu"
  /\ params = 0 /\ grad = 0 /\ out = NoOut /\ loss = 0 /\ running_loss = 0
  /\ logged = <<>> /\ marks = 0
  /\ err = [c \in Cells |-> "none"]
  /\ nsaves = 0 /\ nsteps = 0 /\ nbatches = 0
  /\ done = <<>> /\ prevDone = <<>>
  /\ yielded = <<>> /\ epochLoss = 0

Init ==
  /\ NotebookInit /\ Hyper
  /\ test_size \in TestSizes
  /\ \E n \in 0..MaxPaths : paths = [i \in 1..n |-> i]
  /\ fs = [f \in {SaveName, LoadName} |-> NoFile]
  /\ ShapeIdle /\ SampleIdle

\* train_data = Dataset(paths[:-test_size]); test_data = Dataset(paths[-test_size:])
\* (the two DataLoader objects hold no state until they are iterated)
DataCell ==
  /\ pc = "data"
  /\ train_data' = TrainSplit(paths, test_size)
  /\ test_data' = TestSplit(paths, test_size)
  /\ pc' = "model"
  /\ UNCHANGED <<cfgVars, loopVars, modelVars, ioVars, histVars, shapeVars, sampleVars>>

\* vae = VAE(latent_size).to(device); optimizer = optim.Adam(vae.parameters())
ModelCell ==
  /\ pc = "model"
  /\ params' \in 0..(ParamMod - 1)
  /\ grad' = 0
  /\ pc' = "epoch_head"
  /\ UNCHANGED <<cfgVars, dataVars, loopVars, out, loss, running_loss, ioVars,
                 histVars, shapeVars, sampleVars>>

\* for epoch in range(1, epochs + 1): is there another epoch after epoch e?
MoreEpochsEarlyExit(e, n) == e < n - 1
MoreEpochs(e, n) == e < n

\* for epoch in range(1, epochs + 1): running_loss = 0
EpochHead ==
  /\ pc = "epoch_head"
  /\ IF MoreEpochs(epoch, epochs)
       THEN /\ epoch' = epoch + 1
            /\ running_loss' = 0
            /\ pc' = "iter"
       ELSE /\ pc' = "save"
            /\ UNCHANGED <<epoch, running_loss>>
  /\ UNCHANGED <<cfgVars, dataVars, batch, order, pos, x, xdev, zdev, params,
                 grad, out, loss, ioVars, histVars, shapeVars, sampleVars>>

\* enumerate(train_loader, start=1): a new iterator with a fresh shuffle
LoaderIter ==
  /\ pc = "iter"
  /\ order' \in Shuffles(Len(train_data))
  /\ pos' = 0
  /\ yielded' = [i \in 1..Len(train_data) |-> 0]
  /\ epochLoss' = 0
  /\ pc' = "fetch"
  /\ UNCHANGED <<cfgVars, dataVars, epoch, batch, x, xdev, zdev, modelVars,
                 ioVars, nsaves, nsteps, nbatches, done, prevDone, shapeVars,
                 sampleVars>>

\* The indices of the batch an iterator at position p yields next.
NextBatch(ord, p, bs) == {ord[k] : k \in (p + 1)..Min(p + bs, Len(ord))}

\* for batch, x in enumerate(train_loader, start=1): the next batch, or the end
Fetch ==
  /\ pc = "fetch"
  /\ IF pos < Len(order)
       THEN LET b == NextBatch(order, pos, batch_size) IN
            /\ x' = b
            /\ xdev' = "cpu"
            /\ batch' = (IF pos = 0 THEN 0 ELSE batch) + 1
            /\ pos' = pos + Cardinality(b)
            /\ yielded' = [i \in DOMAIN yielded |->
                             IF i \in b THEN yielded[i] + 1 ELSE yielded[i]]
            /\ nbatches' = nbatches + 1
            /\ prevDone' = done
            /\ done' = <<>>
            /\ pc' = "to_device"
       ELSE /\ pc' = "epoch_end"
            /\ UNCHANGED <<x, xdev, batch, pos, yielded, nbatches, prevDone, done>>
  /\ UNCHANGED <<cfgVars, dataVars, epoch, order, zdev, modelVars, ioVars,
                 nsaves, nsteps, epochLoss, shapeVars, sampleVars>>

\* The statement that follows statement l of the loop body.
BodyOrder == <<"to_device", "zero_grad", "forward", "loss", "backward", "step",
               "accumulate", "progress">>

BodyNextStepFirst(l) ==
  CASE l = "to_device" -> "zero_grad"
    [] l = "zero_grad" -> "forward"
    [] l = "forward" -> "loss"
    [] l = "loss" -> "step"
    [] l = "step" -> "backward"
    [] l = "backward" -> "accumulate"
    [] l = "accumulate" -> "progress"

BodyNext(l) ==
  LET k == CHOOSE k \in 1..(Len(BodyOrder) - 1) : BodyOrder[k] = l
  IN  BodyOrder[k + 1]

\* x = x.to(device)
ToDevice ==
  /\ pc = "to_device"
  /\ xdev' = device
  /\ pc' = BodyNext(pc)
  /\ UNCHANGED <<cfgVars, dataVars, epoch, batch, order, pos, x, zdev,
                 modelVars, ioVars, histVars, shapeVars, sampleVars>>

\* optimizer.zero_grad()
ZeroGrad ==
  /\ pc = "zero_grad"
  /\ grad' = 0
  /\ done' = Append(done, pc)
  /\ pc' = BodyNext(pc)
  /\ UNCHANGED <<cfgVars, dataVars, loopVars, params, out, loss, running_loss,
                 ioVars, nsaves, nsteps, nbatches, prevDone, yielded, epochLoss,
                 shapeVars, sampleVars>>

\* x_recon, mu, logvar = vae(x)
ForwardPass ==
  /\ pc = "forward"
  /\ IF SameDevice(xdev, device)
       THEN /\ out' = Forward(params, train_data, x)
            /\ done' = Append(done, pc)
            /\ pc' = BodyNext(pc)
            /\ UNCHANGED err
       ELSE /\ err' = [err EXCEPT !["train"] = "RuntimeError"]
            /\ pc' = "load"
            /\ UNCHANGED <<out, done>>
  /\ UNCHANGED <<cfgVars, dataVars, loopVars, params, grad, loss, running_loss,
                 logged, marks, fs, nsaves, nsteps, nbatches, prevDone, yielded,
                 epochLoss, shapeVars, sampleVars>>

\* loss = vae_loss(x_recon, x, mu, logvar)
ComputeLoss ==
  /\ pc = "loss"
  /\ loss' = vae_loss(out, train_data)
  /\ epochLoss' = epochLoss + vae_loss(out, train_data)
  /\ done' = Append(done, pc)
  /\ pc' = BodyNext(pc)
  /\ UNCHANGED <<cfgVars, dataVars, loopVars, params, grad, out, running_loss,
                 ioVars, nsaves, nsteps, nbatches, prevDone, yielded,
                 shapeVars, sampleVars>>

\* loss.backward()
BackwardPassSteps ==
  /\ pc = "backward"
  /\ grad' = Backward(grad, loss)
  /\ params' = OptimizerStep(params, grad')
  /\ done' = Append(done, pc)
  /\ pc' = BodyNext(pc)
  /\ UNCHANGED <<cfgVars, dataVars, loopVars, out, loss, running_loss,
                 ioVars, nsaves, nsteps, nbatches, prevDone, yielded, epochLoss,
                 shapeVars, sampleVars>>

BackwardPass ==
  /\ pc = "backward"
  /\ grad' = Backward(grad, loss)
  /\ done' = Append(done, pc)
  /\ pc' = BodyNext(pc)
  /\ UNCHANGED <<cfgVars, dataVars, loopVars, params, out, loss, running_loss,
                 ioVars, nsaves, nsteps, nbatches, prevDone, yielded, epochLoss,
                 shapeVars, sampleVars>>

\* optimizer.step()
OptStep ==
  /\ pc = "step"
  /\ params' = OptimizerStep(params, grad)
  /\ nsteps' = nsteps + 1
  /\ done' = Append(done, pc)
  /\ pc' = BodyNext(pc)
  /\ UNCHANGED <<cfgVars, dataVars, loopVars, grad, out, loss, running_loss,
                 ioVars, nsaves, nbatches, prevDone, yielded, epochLoss,
                 shapeVars, sampleVars>>

\* running_loss += loss.item()
AddLossOverwrite(r, l) == l
AddLoss(r, l) == r + l

Accumulate ==
  /\ pc = "accumulate"
  /\ running_loss' = AddLoss(running_loss, loss)
  /\ done' = Append(done, pc)
  /\ pc' = BodyNext(pc)
  /\ UNCHANGED <<cfgVars, dataVars, loopVars, params, grad, out, loss,
                 ioVars, nsaves, nsteps, nbatches, prevDone, yielded, epochLoss,
                 shapeVars, sampleVars>>

\* if batch % (len(train_loader) // 10) == 0: print('=', end='')
Progress ==
  /\ pc = "progress"
  /\ LET every == LoaderLen(Len(train_data), batch_size) \div ProgressMarks IN
     IF every = 0
       THEN /\ err' = [err EXCEPT !["train"] = "ZeroDivisionError"]
            /\ pc' = "load"
            /\ UNCHANGED marks
       ELSE /\ marks' = marks + (IF batch % every = 0 THEN 1 ELSE 0)
            /\ pc' = "fetch"
            /\ UNCHANGED err
  /\ UNCHANGED <<cfgVars, dataVars, loopVars, modelVars, logged, fs, histVars,
                 shapeVars, sampleVars>>

\* The line print(f'> Epoch: {epoch}, Loss: {running_loss / len(train_data)}'):
\* the quotient is kept exact, as numerator and denominator.
EpochLine(e, r, ds) == <<e, r, Len(ds)>>

EpochEnd ==
  /\ pc = "epoch_end"
  /\ IF Len(train_data) = 0
       THEN /\ err' = [err EXCEPT !["train"] = "ZeroDivisionError"]
            /\ pc' = "load"
            /\ UNCHANGED logged
       ELSE /\ logged' = Append(logged, EpochLine(epoch, running_loss, train_data))
            /\ pc' = "epoch_head"
            /\ UNCHANGED err
  /\ UNCHANGED <<cfgVars, dataVars, loopVars, modelVars, marks, fs, histVars,
                 shapeVars, sampleVars>>

\* torch.save(vae.state_dict(), 'beta-vae.pth')
SaveState(f, p) == [f EXCEPT ![SaveName] = StateDict(p)]

Save ==
  /\ pc = "save"
  /\ fs' = SaveState(fs, params)
  /\ nsaves' = nsaves + 1
  /\ pc' = "load"
  /\ UNCHANGED <<cfgVars, dataVars, loopVars, modelVars, logged, marks, err,
                 nsteps, nbatches, done, prevDone, yielded, epochLoss,
                 shapeVars, sampleVars>>

\* The load cell as shipped: both of its lines are comments.
LoadCellCommented ==
  /\ pc = "load"
  /\ pc' = "trav"
  /\ UNCHANGED <<cfgVars, dataVars, loopVars, modelVars, ioVars, histVars,
                 shapeVars, sampleVars>>

\* The load cell with its second line uncommented:
\* vae.load_state_dict(torch.load('vae.pth', map_location=device))
LoadCell ==
  /\ pc = "load"
  /\ LET content == fs[LoadName] IN
     IF content.kind = "absent"
       THEN /\ err' = [err EXCEPT !["load"] = "FileNotFoundError"]
            /\ UNCHANGED params
       ELSE IF content.kind # "state_dict"
         THEN /\ err' = [err EXCEPT !["load"] = "RuntimeError"]
              /\ UNCHANGED params
         ELSE /\ params' = content.data
              /\ UNCHANGED err
  /\ pc' = "trav"
  /\ UNCHANGED <<cfgVars, dataVars, loopVars, grad, out, loss, running_loss,
                 logged, marks, fs, histVars, shapeVars, sampleVars>>

\* with torch.no_grad(): for x in train_loader: (the first batch, never moved)
TravFetch ==
  /\ pc = "trav"
  /\ order' \in Shuffles(Len(train_data))
  /\ IF Len(train_data) = 0
       THEN /\ pc' = "recon"
            /\ UNCHANGED <<x, xdev, pos>>
       ELSE /\ x' = NextBatch(order', 0, batch_size)
            /\ xdev' = "cpu"
            /\ pos' = Cardinality(NextBatch(order', 0, batch_size))
            /\ pc' = "trav_forward"
  /\ UNCHANGED <<cfgVars, dataVars, epoch, batch, zdev, modelVars, ioVars,
                 histVars, shapeVars, sampleVars>>

\* x_recon, mu, logvar = vae(x)
TravForward ==
  /\ pc = "trav_forward"
  /\ IF SameDevice(xdev, device)
       THEN /\ out' = Forward(params, train_data, x)
            /\ pc' = "trav_sample"
            /\ UNCHANGED err
       ELSE /\ err' = [err EXCEPT !["trav"] = "RuntimeError"]
            /\ pc' = "recon"
            /\ UNCHANGED out
  /\ UNCHANGED <<cfgVars, dataVars, loopVars, params, grad, loss, running_loss,
                 logged, marks, fs, histVars, shapeVars, sampleVars>>

\* z = sample(mu, logvar)[0]: z lives where mu and logvar live
TravSample ==
  /\ pc = "trav_sample"
  /\ zdev' = device
  /\ pc' = "trav_decode"
  /\ UNCHANGED <<cfgVars, dataVars, epoch, batch, order, pos, x, xdev,
                 modelVars, ioVars, histVars, shapeVars, sampleVars>>

\* images.append(vae.decoder(z_)[0]) for every dimension and value; plot; break
TravDecode ==
  /\ pc = "trav_decode"
  /\ IF SameDevice(zdev, device)
       THEN UNCHANGED err
       ELSE err' = [err EXCEPT !["trav"] = "RuntimeError"]
  /\ pc' = "recon"
  /\ UNCHANGED <<cfgVars, dataVars, loopVars, modelVars, logged, marks, fs,
                 histVars, shapeVars, sampleVars>>

\* The reconstruction cell: np.random.choice(..., cols, replace=False) needs
\* cols test images, and reshape(-1, input_size) names an undefined variable.
ReconCell ==
  /\ pc = "recon"
  /\ err' = [err EXCEPT !["recon"] =
               IF Len(test_data) < GridRows THEN "ValueError" ELSE "NameError"]
  /\ pc' = "grid"
  /\ UNCHANGED <<cfgVars, dataVars, loopVars, modelVars, logged, marks, fs,
                 histVars, shapeVars, sampleVars>>

\* The latent-grid cell: stack(meshgrid(a, b), dim=2).reshape(-1, latent_size)
\* holds 2 * rows * cols numbers; samples = vae.decoder(z.to(device))
GridCell ==
  /\ pc = "grid"
  /\ IF (2 * GridRows * GridRows) % LatentSize = 0
       THEN UNCHANGED err
       ELSE err' = [err EXCEPT !["grid"] = "RuntimeError"]
  /\ pc' = "end"
  /\ UNCHANGED <<cfgVars, dataVars, loopVars, modelVars, logged, marks, fs,
                 histVars, shapeVars, sampleVars>>

TrainingCell ==
  \/ EpochHead \/ LoaderIter \/ Fetch \/ ToDevice \/ ZeroGrad \/ ForwardPass
  \/ ComputeLoss \/ BackwardPass \/ OptStep \/ Accumulate \/ Progress
  \/ EpochEnd \/ Save

ViewCells ==
  \/ TravFetch \/ TravForward \/ TravSample \/ TravDecode \/ ReconCell \/ GridCell

Next == DataCell \/ ModelCell \/ TrainingCell \/ LoadCellCommented \/ ViewCells

Spec == Init /\ [][Next]_vars

\* The notebook with the load cell uncommented; 'vae.pth' is a file the
\* notebook never writes, so its content is whatever the directory holds.
InitReload ==
  /\ NotebookInit /\ Hyper
  /\ test_size \in TestSizes
  /\ \E n \in 0..MaxPaths : paths = [i \in 1..n |-> i]
  /\ \E c \in {NoFile, BadFile} \cup {StateDict(p) : p \in 0..(ParamMod - 1)} :
        fs = [f \in {SaveName, LoadName} |-> IF f = LoadName THEN c ELSE NoFile]
  /\ ShapeIdle /\ SampleIdle

NextReload == DataCell \/ ModelCell \/ TrainingCell \/ LoadCell \/ ViewCells

SpecReload == InitReload /\ [][NextReload]_vars

\* ------------------------------------------------------- the split, alone
\* The data cell on every path list glob.glob can return (distinct paths in
\* any order) and every test_size.
InitSplit ==
  /\ NotebookInit /\ HyperFixed
  /\ test_size \in 0..MaxSplitTest
  /\ \E n \in 0..MaxSplitPaths : paths \in Perms(n)
  /\ fs = [f \in {SaveName, LoadName} |-> NoFile]
  /\ ShapeIdle /\ SampleIdle

SpecSplit == InitSplit /\ [][DataCell]_vars

\* --------------------------------------------------- layer shapes, alone
\* nn.Conv2d(kernel_size=k, stride=s), no padding: the output side length
ConvOutPadded(n, k, s) == (n + 2 - k) \div s + 1
ConvOut(n, k, s) == (n - k) \div s + 1

\* nn.ConvTranspose2d(kernel_size=k, stride=s, output_padding=op): output side
ConvTransposeOut(n, k, s, op) == (n - 1) * s + k + op

\* A Conv2d layer on a (b, c, h, w) tensor; NoShape when the layer rejects it.
Conv2d(sh, cin, cout, k, s) ==
  IF Len(sh) = 4 /\ sh[2] = cin /\ sh[3] >= k /\ sh[4] >= k
    THEN <<sh[1], cout, ConvOut(sh[3], k, s), ConvOut(sh[4], k, s)>>
    ELSE NoShape

ConvTranspose2d(sh, cin, cout, k, s, op) ==
  IF Len(sh) = 4 /\ sh[2] = cin
    THEN <<sh[1], cout, ConvTransposeOut(sh[3], k, s, op),
           ConvTransposeOut(sh[4], k, s, op)>>
    ELSE NoShape

\* nn.Linear(fin, fout) on a (b, f) tensor
Linear(sh, fin, fout) ==
  IF Len(sh) = 2 /\ sh[2] = fin THEN <<sh[1], fout>> ELSE NoShape

\* x.flatten(start_dim=1)
Flatten(sh) == <<sh[1], sh[2] * sh[3] * sh[4]>>

\* z.reshape(-1, c, h, w)
Reshape(sh, c, h, w) ==
  IF (sh[1] * sh[2]) % (c * h * w) = 0
    THEN <<(sh[1] * sh[2]) \div (c * h * w), c, h, w>>
    ELSE NoShape

\* One layer: the running tensor becomes r, or the pass stops with an error.
Layer(from, r, to) ==
  /\ stage = from
  /\ IF r = NoShape
       THEN stage' = "error" /\ UNCHANGED shape
       ELSE stage' = to /\ shape' = r
  /\ UNCHANGED <<cfgVars, dataVars, pc, loopVars, modelVars, ioVars, histVars,
                 inShape, latent, sampleVars>>

Conv1 == Layer("conv1", Conv2d(shape, ImageChannels, 16, 3, 2), "conv2")
             /\ UNCHANGED <<muShape, logvarShape>>
Conv2 == Layer("conv2", Conv2d(shape, 16, 32, 3, 2), "conv3")
             /\ UNCHANGED <<muShape, logvarShape>>
Conv3 == Layer("conv3", Conv2d(shape, 32, 64, 3, 2), "flatten")
             /\ UNCHANGED <<muShape, logvarShape>>
FlattenStep == Layer("flatten", Flatten(shape), "fc_mu")
             /\ UNCHANGED <<muShape, logvarShape>>

\* mu = self.fc_mu(x): x itself stays the flattened tensor
FcMu ==
  /\ stage = "fc_mu"
  /\ muShape' = Linear(shape, FlatFeatures, latent)
  /\ stage' = IF muShape' = NoShape THEN "error" ELSE "fc_logvar"
  /\ UNCHANGED <<cfgVars, dataVars, pc, loopVars, modelVars, ioVars, histVars,
                 inShape, shape, latent, logvarShape, sampleVars>>

\* logvar = self.fc_logvar(x)
FcLogvar ==
  /\ stage = "fc_logvar"
  /\ logvarShape' = Linear(shape, FlatFeatures, latent)
  /\ stage' = IF logvarShape' = NoShape THEN "error" ELSE "sample"
  /\ UNCHANGED <<cfgVars, dataVars, pc, loopVars, modelVars, ioVars, histVars,
                 inShape, shape, latent, muShape, sampleVars>>

\* z = sample(mu, logvar): element-wise, so the shapes must agree
SampleStep == Layer("sample", IF muShape = logvarShape THEN muShape ELSE NoShape, "fc")
             /\ UNCHANGED <<muShape, logvarShape>>
FcStep == Layer("fc", Linear(shape, latent, FlatFeatures), "reshape")
             /\ UNCHANGED <<muShape, logvarShape>>
ReshapeStep == Layer("reshape", Reshape(shape, 64, 7, 7), "deconv1")
             /\ UNCHANGED <<muShape, logvarShape>>
Deconv1 == Layer("deconv1", ConvTranspose2d(shape, 64, 32, 3, 2, 0), "deconv2")
             /\ UNCHANGED <<muShape, logvarShape>>
Deconv2 == Layer("deconv2", ConvTranspose2d(shape, 32, 16, 3, 2, 0), "deconv_recon")
             /\ UNCHANGED <<muShape, logvarShape>>
DeconvRecon ==
  Layer("deconv_recon", ConvTranspose2d(shape, 16, ImageChannels, 3, 2, 1), "done")
             /\ UNCHANGED <<muShape, logvarShape>>

InitShape ==
  /\ NotebookInit /\ HyperFixed
  /\ test_size = 0 /\ paths = <<>>
  /\ fs = [f \in {SaveName, LoadName} |-> NoFile]
  /\ \E b \in 1..MaxB : inShape = <<b, ImageChannels, ImageSide, ImageSide>>
  /\ shape = inShape
  /\ latent \in 1..MaxLatent
  /\ stage = "conv1"
  /\ muShape = NoShape /\ logvarShape = NoShape
  /\ SampleIdle

NextShape ==
  \/ Conv1 \/ Conv2 \/ Conv3 \/ FlattenStep \/ FcMu \/ FcLogvar \/ SampleStep
  \/ FcStep \/ ReshapeStep \/ Deconv1 \/ Deconv2 \/ DeconvRecon

SpecShape == InitShape /\ [][NextShape]_vars

\* ------------------------------------------------------ the sampler, alone
\* Reals are fixed-point: the integer v stands for v / One.  logvar is in units
\* of ln 2 and even, so std = exp(logvar / 2) = 2 ^ (logvar / 2) is an integer.
MuValues == {0 - One, 0, One}
LogvarValues == {0, 2}

\* torch.rand_like: every element uniform on [0, 1), so v / One with v < One
RandLike(d) == [1..d -> 0..(One - 1)]

\* std = torch.exp(logvar / 2)
SampleStd ==
  /\ spc = "std"
  /\ sstd' = [i \in DOMAIN slogvar |-> Exp(slogvar[i] \div 2)]
  /\ spc' = "eps"
  /\ UNCHANGED <<cfgVars, dataVars, pc, loopVars, modelVars, ioVars, histVars,
                 shapeVars, smu, slogvar, seps, sz>>

\* eps = torch.rand_like(std)
SampleEps ==
  /\ spc = "eps"
  /\ seps' \in RandLike(Len(sstd))
  /\ spc' = "return"
  /\ UNCHANGED <<cfgVars, dataVars, pc, loopVars, modelVars, ioVars, histVars,
                 shapeVars, smu, slogvar, sstd, sz>>

\* return mu + std * eps
SampleReturn ==
  /\ spc = "return"
  /\ sz' = [i \in DOMAIN smu |-> smu[i] + sstd[i] * seps[i]]
  /\ spc' = "returned"
  /\ UNCHANGED <<cfgVars, dataVars, pc, loopVars, modelVars, ioVars, histVars,
                 shapeVars, smu, slogvar, sstd, seps>>

InitSample ==
  /\ NotebookInit /\ HyperFixed
  /\ test_size = 0 /\ paths = <<>>
  /\ fs = [f \in {SaveName, LoadName} |-> NoFile]
  /\ ShapeIdle
  /\ \E d \in 1..MaxDim :
       /\ smu \in [1..d -> MuValues]
       /\ slogvar \in [1..d -> LogvarValues]
  /\ sstd = <<>> /\ seps = <<>> /\ sz = <<>>
  /\ spc = "std"

NextSample == SampleStd \/ SampleEps \/ SampleReturn

SpecSample == InitSample /\ [][NextSample]_vars

\* ------------------------------------------------------------------ claims
AfterTraining ==
  {"load", "trav", "trav_forward", "trav_sample", "trav_decode", "recon",
   "grid", "end"}

\* The six statements the claims list, in the order of the loop body.
StepNames == SubSeq(BodyOrder, 2, 7)

BodyIndex(l) == CHOOSE k \in 1..Len(BodyOrder) : BodyOrder[k] = l

InBody == pc \in Range(BodyOrder)

\* C1: on every batch the loop body runs zero_grad, forward, loss, backward,
\* step, accumulate in this order (by the statements run and by their effects:
\* the gradient stepped on is the one of this batch's loss on this batch's
\* forward pass); a batch is fetched only after the previous one was
\* accumulated; within an epoch no index is yielded twice and at the end of the
\* epoch every index was yielded once; there is one optimizer step per batch.
C1_TrainingOrder ==
  /\ InBody =>
       /\ done = SubSeq(StepNames, 1, Max(BodyIndex(pc) - 2, 0))
       /\ (batch >= 2 => prevDone = StepNames)
       /\ x # {}
       /\ xdev = (IF pc = "to_device" THEN "cpu" ELSE device)
  /\ pc \in {"loss", "backward", "step"} => out = Forward(params, train_data, x)
  /\ pc \in {"backward", "step"} => loss = vae_loss(out, train_data)
  /\ pc = "backward" => grad = 0
  /\ pc = "step" => grad = Backward(0, loss)
  /\ \A i \in DOMAIN yielded : yielded[i] <= 1
  /\ pc = "epoch_end" => \A i \in DOMAIN yielded : yielded[i] = 1
  /\ nsteps = nbatches -
       (IF InBody /\ BodyIndex(pc) <= BodyIndex("step") THEN 1 ELSE 0)

C1_Witness ==
  /\ pc = "epoch_end" /\ epoch = 2 /\ batch >= ProgressMarks
  /\ nsteps = 2 * batch /\ batch_size = 2 /\ Len(train_data) % 2 = 1

C3_SplitIsLastK ==
  pc # "data" =>
    LET n == Len(paths)
        k == Min(test_size, n)
    IN  /\ test_data = SubSeq(paths, n - k + 1, n)
        /\ train_data = SubSeq(paths, 1, n - k)
        /\ train_data \o test_data = paths

\* C4: running_loss is zero when an epoch's batches start; while the epoch runs
\* it is the sum of the losses of this epoch's batches accumulated so far; the
\* line logged for epoch k carries k, the sum of the losses computed in epoch k
\* and len(train_data) as the divisor; every sample contributed once.
C4_EpochLossMean ==
  /\ pc = "iter" => running_loss = 0
  /\ pc \in {"fetch", "epoch_end"} => running_loss = epochLoss
  /\ InBody =>
       running_loss = epochLoss -
         (IF BodyIndex(pc) \in BodyIndex("backward")..BodyIndex("accumulate")
            THEN loss ELSE 0)
  /\ \A k \in DOMAIN logged :
       /\ logged[k][1] = k
       /\ logged[k][3] = Len(train_data)
  /\ (pc = "epoch_head" /\ epoch >= 1) =>
       /\ logged[epoch] = <<epoch, epochLoss, Len(train_data)>>
       /\ SumOver(yielded, DOMAIN yielded) = Len(train_data)

C4_Witness ==
  /\ pc = "epoch_head" /\ epoch = 2 /\ Len(logged) = 2
  /\ batch_size = 2 /\ Len(train_data) % 2 = 1
  /\ logged[2][2] > 0 /\ logged[2][2] # logged[1][2]

\* C5: every step of the notebook other than the construction of the model and
\* optimizer.step() leaves the parameters as they are.
C5_ParamsFrame == [][params' # params => pc \in {"model", "step"}]_vars

C5_Witness ==
  /\ pc = "end" /\ nsaves = 1 /\ err["trav"] = "none"
  /\ nsteps >= ProgressMarks /\ fs[SaveName] = StateDict(params)

\* C6 (as claimed): once the training cell has saved and the load cell has run,
\* the load raised nothing and the forward pass on the current batch is the
\* one of the saved parameters.
C6_RoundTrip ==
  (pc = "trav" /\ nsaves = 1) =>
    /\ err["load"] = "none"
    /\ Forward(params, train_data, x) = Forward(fs[SaveName].data, train_data, x)

\* C7: the forward pass never stops on a shape error; the three convolutions
\* leave a (b, 64, 7, 7) tensor whose flattening has 7*7*64 features; mu and
\* logvar have shape (b, latent_size); the reconstruction has the input's shape
\* (b, 3, 64, 64).
C7_Shapes ==
  /\ stage # "error"
  /\ stage = "flatten" => shape = <<inShape[1], 64, 7, 7>>
  /\ stage \in {"fc_mu", "fc_logvar", "sample"} =>
       shape = <<inShape[1], FlatFeatures>>
  /\ stage \in {"fc", "reshape", "deconv1", "deconv2", "deconv_recon", "done"} =>
       /\ muShape = <<inShape[1], latent>>
       /\ logvarShape = <<inShape[1], latent>>
  /\ stage = "deconv1" => shape = <<inShape[1], 64, 7, 7>>
  /\ stage = "done" =>
       /\ shape = <<inShape[1], ImageChannels, ImageSide, ImageSide>>
       /\ shape = inShape

C7_Witness ==
  /\ stage = "done" /\ inShape[1] = MaxB /\ latent = MaxLatent
  /\ shape = inShape /\ muShape = <<MaxB, MaxLatent>>

\* C8 (as claimed): sample on the literal inputs mu=[0], logvar=[0] under the
\* noise eps=[1] the claim fixes returns [1].
C8_LiteralCase ==
  (spc = "returned" /\ smu = <<0>> /\ slogvar = <<0>>) => sz = <<One>>

\* C9 (as claimed): at every call of the VAE or of its decoder the tensor
\* passed is on the device of the parameters.
C9_OneDevice ==
  nsaves = 1 =>
    /\ pc \in {"forward", "trav_forward"} => xdev = device
    /\ pc = "trav_decode" => zdev = device

\* C10 (as claimed): with at least one training sample the training cell ends
\* without an error and with the checkpoint saved.
C10_Terminates ==
  (Len(train_data) >= 1 /\ pc \in AfterTraining) =>
    /\ err["train"] = "none"
    /\ nsaves = 1

====
